---- MODULE Spec2Model ----
(***************************************************************************)
(* Model of the Marinus certificate-transparency crawler                   *)
(* (python3_cron_scripts/get_original_ct_logs.py): cursor resolution, the   *)
(* batch loop of main, the leaf decoder, the relevancy filter, the store    *)
(* upsert and the expiration sweep.                                         *)
(***************************************************************************)
EXTENDS Integers, Sequences, FiniteSets, TLC

(***************************************************************************)
(* Bounds of the model and constants of the program.                        *)
(***************************************************************************)
\* Entries a modelled log can hold (the log is append-only and may grow).
MaxLog == 3
\* Entries each log holds when the model starts.
InitLog == 2
\* Runs started in one behaviour of the sequential specification.
MaxRuns == 2
\* Windows remembered per run in the history of get-entries requests.
MaxReq == 3
\* Records of an initial store drawn for the cursor-resolution specification.
MaxRecs == 3
\* Width added to current_index to form ending_index (main, line 451).
BatchWidth == 256
\* argparse default of --starting_index: "no explicit starting index".
NoOverride == -1
\* Tree size of the end-to-end scenario of the window specification.
ScenarioTree == 300

\* The log sources of the model: keys of X509Parser.CT_LOG_MAP.
Sources == {"a", "b"}
\* Python's None where a byte string is expected.
None == <<-1>>
\* Python's None where the parser's attribute dictionary is expected.
NoCert == [absent |-> TRUE]
\* Marks a {source}_id field that a stored document does not have.
Absent == -1

(***************************************************************************)
(* Python bytes and str values are sequences; slices clamp like Python's.   *)
(***************************************************************************)
\* F applied to the value of v, with v evaluated once.
Once(v, F(_)) == CHOOSE r \in {F(x) : x \in {v}} : TRUE

Min(x, y) == IF x <= y THEN x ELSE y
Max(x, y) == IF x >= y THEN x ELSE y

\* s[a:b] for 0 <= a, 0 <= b (0-based, end exclusive, clamped to len(s)).
Slice(s, a, b) ==
    LET lo == Min(a, Len(s))
        hi == Min(b, Len(s))
    IN  IF hi <= lo THEN <<>> ELSE SubSeq(s, lo + 1, hi)

\* s[a:]
SliceFrom(s, a) == Slice(s, a, Len(s))

\* The big-endian value of the first n bytes of b.
RECURSIVE BigEndian(_, _)
BigEndian(b, n) == IF n = 0 THEN 0 ELSE 256 * BigEndian(b, n - 1) + b[n]

\* int.from_bytes(b, "big"); the empty buffer gives 0.
FromBytes(b) == BigEndian(b, Len(b))

\* str.endswith
EndsWith(s, suffix) ==
    /\ Len(suffix) <= Len(s)
    /\ SubSeq(s, Len(s) - Len(suffix) + 1, Len(s)) = suffix

(***************************************************************************)
(* Leaf decoder.                                                            *)
(***************************************************************************)
\* read_leaf_header raises IndexError on leaf[0] or leaf[1] of a short buffer.
LeafHeaderRaises(leaf) == Len(leaf) < 2

read_leaf_header(leaf) ==
    [version          |-> leaf[1],
     merkle_leaf_type |-> leaf[2],
     timestamp        |-> FromBytes(Slice(leaf, 2, 10)),
     LogEntryType     |-> FromBytes(Slice(leaf, 10, 12)),
     Entry            |-> SliceFrom(leaf, 12)]

\* A decoder whose length check leaves no room for the extensions length.
get_cert_from_leaf_exact(leaf) ==
    Once(read_leaf_header(leaf), LAMBDA header :
        LET cert_type   == header.LogEntryType
            cert_length == FromBytes(Slice(header.Entry, 0, 3))
            cert        == SliceFrom(header.Entry, 3)
        IN  IF cert_type = 1 THEN <<None, cert_type>>
            ELSE IF cert_length # Len(cert) THEN <<None, cert_type>>
            ELSE <<cert, cert_type>>)

\* A decoder that treats a precertificate leaf like any other leaf.
get_cert_from_leaf_any(leaf) ==
    Once(read_leaf_header(leaf), LAMBDA header :
        LET cert_type   == header.LogEntryType
            cert_length == FromBytes(Slice(header.Entry, 0, 3))
            cert        == SliceFrom(header.Entry, 3)
        IN  IF cert_length # Len(cert) - 2 THEN <<None, cert_type>>
            ELSE <<cert, cert_type>>)

\* get_cert_from_leaf on the decoded leaf_input: <<cert or None, cert_type>>.
get_cert_from_leaf(leaf) ==
    Once(read_leaf_header(leaf), LAMBDA header :
        LET cert_type   == header.LogEntryType
            cert_length == FromBytes(Slice(header.Entry, 0, 3))
            cert        == SliceFrom(header.Entry, 3)
        IN  IF cert_type = 1 THEN <<None, cert_type>>
            ELSE IF cert_length # Len(cert) - 2 THEN <<None, cert_type>>
            ELSE <<cert, cert_type>>)

\* An extra_data string that is not base64 (incorrect padding).
Malformed == <<-2>>

\* base64.b64decode raises binascii.Error.
Base64Raises(data) == data = Malformed

\* The slice that stops at the declared length.
get_cert_from_extra_data_exact(data) ==
    LET cert_length == FromBytes(Slice(data, 0, 3))
    IN  Slice(data, 3, cert_length + 3)

\* get_cert_from_extra_data on the decoded extra_data.
get_cert_from_extra_data(data) ==
    LET cert_length == FromBytes(Slice(data, 0, 3))
    IN  Slice(data, 3, cert_length + 4)

(***************************************************************************)
(* The CT logs of the model.  A leaf is the decoded leaf_input: 12 header   *)
(* bytes, then for an X.509 entry a 3-byte length, the certificate and two  *)
(* bytes of extensions length.  Names are strings of one-letter characters. *)
(***************************************************************************)
LeafHeader(entry_type) == <<0, 0, 0, 0, 0, 0, 0, 0, 0, 0, 0, entry_type>>
Len3(n) == <<0, 0, n>>

\* DER stand-ins: the first byte names the certificate to the parser.
DerOrg == <<1, 7>>
DerZone == <<2, 7, 7>>
DerIrrelevant == <<3>>
DerGarbage == <<9, 9>>

X509Leaf(der) == LeafHeader(0) \o Len3(Len(der)) \o der \o <<0, 0>>

EntryOrg == [leaf_input |-> X509Leaf(DerOrg), extra_data |-> <<>>]
EntryZone == [leaf_input |-> X509Leaf(DerZone), extra_data |-> <<>>]
EntryIrrelevant == [leaf_input |-> X509Leaf(DerIrrelevant), extra_data |-> <<>>]
EntryGarbage == [leaf_input |-> X509Leaf(DerGarbage), extra_data |-> <<>>]
\* Declared length 5, one certificate byte present.
EntryMismatch ==
    [leaf_input |-> LeafHeader(0) \o Len3(5) \o <<1>> \o <<0, 0>>,
     extra_data |-> <<>>]
\* A precertificate entry: the certificate travels in extra_data.
EntryPrecert ==
    [leaf_input |-> LeafHeader(1) \o <<4, 4, 4, 4>>,
     extra_data |-> Len3(3) \o DerZone \o <<8, 8, 8>>]
\* An entry type that is neither 0 nor 1, with inconsistent lengths.
EntryOtherType ==
    [leaf_input |-> LeafHeader(2) \o Len3(4) \o <<1>>, extra_data |-> <<>>]
\* An entry type that is neither 0 nor 1, with consistent lengths.
EntryOtherZone ==
    [leaf_input |-> LeafHeader(2) \o Len3(Len(DerZone)) \o DerZone \o <<0, 0>>,
     extra_data |-> <<>>]
\* A precertificate entry whose extra_data cannot be decoded.
EntryPrecertMalformed ==
    [leaf_input |-> LeafHeader(1) \o <<4, 4, 4, 4>>, extra_data |-> Malformed]
\* A precertificate entry whose extra_data ends with the certificate.
EntryPrecertExact ==
    [leaf_input |-> LeafHeader(1) \o Len3(Len(DerIrrelevant)) \o DerIrrelevant
                       \o <<0, 0>>,
     extra_data |-> Len3(Len(DerOrg)) \o DerOrg]
\* A leaf_input that decodes to a single byte.
EntryShort == [leaf_input |-> <<0>>, extra_data |-> <<>>]

\* The entries of each log, repeated cyclically as the log grows.
LogPattern ==
    [s \in Sources |->
        IF s = "a"
        THEN <<EntryOrg, EntryPrecert, EntryMismatch, EntryZone>>
        ELSE <<EntryIrrelevant, EntryOrg, EntryGarbage, EntryOtherType,
               EntryOtherZone, EntryPrecertMalformed, EntryPrecertExact,
               EntryShort>>]

\* The entry a log holds at a (0-based) index.
LogEntry(s, i) == LogPattern[s][(i % Len(LogPattern[s])) + 1]

(***************************************************************************)
(* Collaborators outside the script: the attribute parser, the zone list,   *)
(* the tracked organizations.                                               *)
(***************************************************************************)
ZoneEC == <<"e", ".", "c">>
ZoneDO == <<"d", ".", "o">>
\* ZoneManager.get_distinct_zones
zones == <<ZoneEC, ZoneDO>>
\* config collection, SSL_Orgs
ssl_orgs == {"Acme"}

\* What the parser reads out of each DER stand-in.
CertTable ==
    [b \in {1, 2, 3} |->
        CASE b = 1 ->
               [fingerprint_sha256 |-> "f1",
                subject_organization_name |-> <<"Acme">>,
                subject_common_names |-> << <<"x", ".", "y">> >>,
                subject_dns_names |-> <<>>,
                not_after |-> 0,
                raw |-> "PEM"]
          [] b = 2 ->
               [fingerprint_sha256 |-> "f2",
                subject_organization_name |-> <<"Other">>,
                subject_common_names |-> << <<"w", ".", "d", ".", "o">> >>,
                subject_dns_names |-> << ZoneEC, <<"a", ".", "e", ".", "c">> >>,
                not_after |-> 2,
                raw |-> "BAD"]
          [] OTHER ->
               [fingerprint_sha256 |-> "f3",
                subject_organization_name |-> <<>>,
                subject_common_names |-> << <<"n", "e", ".", "c">> >>,
                subject_dns_names |-> <<>>,
                not_after |-> 9,
                raw |-> "PEM"]]

\* X509Parser.parse_data: the attributes of a certificate, None on failure.
parse_data(der, source, now) ==
    IF der = None THEN NoCert
    ELSE IF der = <<>> THEN NoCert
    ELSE IF der[1] \notin DOMAIN CertTable THEN NoCert
    ELSE LET c == CertTable[der[1]]
         IN  [fingerprint_sha256 |-> c.fingerprint_sha256,
              subject_organization_name |-> c.subject_organization_name,
              subject_common_names |-> c.subject_common_names,
              subject_dns_names |-> c.subject_dns_names,
              not_after |-> c.not_after,
              raw |-> c.raw,
              ids |-> [s \in Sources |-> Absent],
              ct_log_type |-> None,
              zones |-> <<>>,
              sources |-> {source},
              isExpired |-> FALSE,
              marinus_updated |-> now]

(***************************************************************************)
(* Relevancy filter.                                                        *)
(***************************************************************************)
\* An organization filter that never matches.
check_org_relevancy_never(cert, orgs) == FALSE

\* check_org_relevancy: True when an organization name is tracked.
check_org_relevancy(cert, orgs) ==
    \E i \in 1..Len(cert.subject_organization_name) :
        cert.subject_organization_name[i] \in orgs

InSeq(x, s) == \E i \in 1..Len(s) : s[i] = x

\* An inner loop that matches on the bare suffix, without the dot.
RECURSIVE ScanZonesSuffix(_, _, _, _)
ScanZonesSuffix(cn, zs, k, cert_zones) ==
    IF k > Len(zs) THEN cert_zones
    ELSE LET zone == zs[k]
             hit  == EndsWith(cn, zone)
         IN  Once(IF hit /\ ~InSeq(zone, cert_zones)
                  THEN Append(cert_zones, zone)
                  ELSE cert_zones,
                  LAMBDA found : ScanZonesSuffix(cn, zs, k + 1, found))

\* The inner loop over zones for one name: append each new matching zone.
RECURSIVE ScanZones(_, _, _, _)
ScanZones(cn, zs, k, cert_zones) ==
    IF k > Len(zs) THEN cert_zones
    ELSE LET zone == zs[k]
             hit  == cn = zone \/ EndsWith(cn, <<".">> \o zone)
         IN  Once(IF hit /\ ~InSeq(zone, cert_zones)
                  THEN Append(cert_zones, zone)
                  ELSE cert_zones,
                  LAMBDA found : ScanZones(cn, zs, k + 1, found))

\* The outer loop over a list of names.
RECURSIVE ScanNames(_, _, _, _)
ScanNames(names, zs, k, cert_zones) ==
    IF k > Len(names) THEN cert_zones
    ELSE Once(ScanZones(names[k], zs, 1, cert_zones),
              LAMBDA found : ScanNames(names, zs, k + 1, found))

check_zone_relevancy(cert, zs) ==
    Once(ScanNames(cert.subject_common_names, zs, 1, <<>>),
         LAMBDA found : ScanNames(cert.subject_dns_names, zs, 1, found))

(***************************************************************************)
(* HTTP requests.  An attempt ends with a response or with an exception of  *)
(* the requests library; the except clauses are tried in source order.      *)
(***************************************************************************)
\* What one GET, with raise_for_status, can end with.
Outcomes ==
    {"OK", "Status204", "HTTPError", "ConnectionError", "ConnectTimeout",
     "ReadTimeout", "RetryError", "OtherException"}

\* The classes an exception is an instance of (requests.exceptions).
Bases(exc) ==
    CASE exc = "HTTPError" -> {"HTTPError", "RequestException", "Exception"}
      [] exc = "ConnectionError" ->
           {"ConnectionError", "RequestException", "Exception"}
      [] exc = "ConnectTimeout" ->
           {"ConnectionError", "Timeout", "RequestException", "Exception"}
      [] exc = "ReadTimeout" -> {"Timeout", "RequestException", "Exception"}
      [] exc = "RetryError" -> {"RequestException", "Exception"}
      [] OTHER -> {"Exception"}

\* The except clauses of make_https_request, in order.
ExceptClauses ==
    <<"ConnectionError", "HTTPError", "RequestException", "Timeout", "Exception">>

\* The first clause that catches the exception.
Handler(exc) ==
    LET hits == {k \in 1..Len(ExceptClauses) : ExceptClauses[k] \in Bases(exc)}
    IN  ExceptClauses[CHOOSE k \in hits : \A j \in hits : k <= j]

\* A request function for which an HTTP error raised by raise_for_status is
\* fatal like the other exceptions.
make_https_request_fatal(outs, timeout_attempt) ==
    IF outs[1] = "OK" THEN "text"
    ELSE IF outs[1] = "Status204" THEN "None"
    ELSE "exit"

\* make_https_request: "text" (the body), "None", or "exit" (record_job_error
\* then exit(1)).  outs are the outcomes of this attempt and of a retry.
RECURSIVE make_https_request(_, _)
make_https_request(outs, timeout_attempt) ==
    LET out == outs[1]
    IN  IF out = "OK" THEN "text"
        ELSE IF out = "Status204" THEN "None"
        ELSE CASE Handler(out) = "ConnectionError" -> "exit"
               [] Handler(out) = "HTTPError" -> "None"
               [] Handler(out) = "RequestException" -> "exit"
               [] Handler(out) = "Timeout" ->
                    IF timeout_attempt = 0
                    THEN make_https_request(Tail(outs), 1)
                    ELSE "exit"
               [] OTHER -> "exit"

\* The outcomes of the GETs that one call of make_https_request performs,
\* the recursive call after a handled Timeout included.
RECURSIVE Attempted(_, _)
Attempted(outs, timeout_attempt) ==
    LET out == outs[1]
    IN  IF out \in {"OK", "Status204"} THEN <<out>>
        ELSE IF Handler(out) = "Timeout" /\ timeout_attempt = 0
        THEN <<out>> \o Attempted(Tail(outs), 1)
        ELSE <<out>>

(***************************************************************************)
(* The certificate store (a collection of documents, in insertion order).   *)
(***************************************************************************)
\* find({"fingerprint_sha256": fp}).count()
FindCount(coll, fp) ==
    Cardinality({i \in 1..Len(coll) : coll[i].fingerprint_sha256 = fp})

\* The documents that have a {source}_id field, projected on it.
FindIds(coll, source) ==
    SelectSeq([i \in 1..Len(coll) |-> coll[i].ids[source]],
              LAMBDA v : v # Absent)

\* sort([(source + "_id", -1)]): insertion into a descending list.
RECURSIVE SortDescending(_)
SortDescending(vals) ==
    IF vals = <<>> THEN <<>>
    ELSE LET rest == SortDescending(Tail(vals))
             v    == Head(vals)
             k    == Cardinality({i \in 1..Len(rest) : rest[i] > v})
         IN  SubSeq(rest, 1, k) \o <<v>> \o SubSeq(rest, k + 1, Len(rest))

\* A cursor that always restarts from the beginning of the log.
fetch_starting_index_zero(coll, source) == 0

\* A cursor that takes the first document found, without the sort.
fetch_starting_index_unsorted(coll, source) ==
    IF Len(FindIds(coll, source)) = 0 THEN 0 ELSE FindIds(coll, source)[1]

\* fetch_starting_index
fetch_starting_index(coll, source) ==
    LET result == SortDescending(FindIds(coll, source))
    IN  IF Len(FindIds(coll, source)) = 0 THEN 0 ELSE result[1]

\* An update that adds the matched zones to the stored ones.
UpdateCertificateUnion(coll, cert, source, cert_zones, now) ==
    [i \in 1..Len(coll) |->
        IF coll[i].fingerprint_sha256 = cert.fingerprint_sha256
        THEN [coll[i] EXCEPT !.ids[source] = cert.ids[source],
                             !.ct_log_type = cert.ct_log_type,
                             !.zones = @ \o SelectSeq(cert_zones,
                                          LAMBDA z : ~InSeq(z, coll[i].zones)),
                             !.marinus_updated = now,
                             !.sources = @ \cup {source}]
        ELSE coll[i]]

\* An update that also resets isExpired, as a replacement by the freshly
\* parsed certificate would.
UpdateCertificateReplace(coll, cert, source, cert_zones, now) ==
    [i \in 1..Len(coll) |->
        IF coll[i].fingerprint_sha256 = cert.fingerprint_sha256
        THEN [coll[i] EXCEPT !.ids[source] = cert.ids[source],
                             !.ct_log_type = cert.ct_log_type,
                             !.zones = cert_zones,
                             !.marinus_updated = now,
                             !.isExpired = FALSE,
                             !.sources = @ \cup {source}]
        ELSE coll[i]]

\* update_many of insert_certificate: $set and $addToSet on every match.
UpdateCertificate(coll, cert, source, cert_zones, now) ==
    [i \in 1..Len(coll) |->
        IF coll[i].fingerprint_sha256 = cert.fingerprint_sha256
        THEN [coll[i] EXCEPT !.ids[source] = cert.ids[source],
                             !.ct_log_type = cert.ct_log_type,
                             !.zones = cert_zones,
                             !.marinus_updated = now,
                             !.sources = @ \cup {source}]
        ELSE coll[i]]

\* An upsert that inserts without looking the fingerprint up.
UpsertBranchInsert(coll, cert) == "insert"

\* Which store operation insert_certificate performs after its find.
UpsertBranch(coll, cert) ==
    IF FindCount(coll, cert.fingerprint_sha256) = 0 THEN "insert" ELSE "update"

\* A sweep that marks every record, whatever its not_after.
SweepExpiredAll(coll, now) ==
    [i \in 1..Len(coll) |-> [coll[i] EXCEPT !.isExpired = TRUE]]

\* The expiration sweep: update_many on the whole collection.
SweepExpired(coll, now) ==
    [i \in 1..Len(coll) |->
        IF coll[i].not_after < now /\ coll[i].isExpired = FALSE
        THEN [coll[i] EXCEPT !.isExpired = TRUE]
        ELSE coll[i]]

(***************************************************************************)
(* State.  One crawler process per log source; the store, the disk and the  *)
(* logs are shared.                                                         *)
(***************************************************************************)
VARIABLES
    store,            \* the certificate collection
    disk,             \* exported files, <<source, {source}_id>>
    logSize,          \* entries each log holds now
    clock,            \* the time datetime.now() returns
    runs,             \* runs started so far
    job,              \* JobsManager status of "ct_log-" + source
    pc,               \* where each process is in main
    override,         \* args.starting_index
    include_precerts, \* args.include_precerts
    download_method,  \* args.download_methods
    starting_index,
    tree_size,        \* sth_data["tree_size"]
    current_index,
    ending_index,
    certs,            \* the get-entries response being iterated
    cert,             \* the certificate handed to insert_certificate
    requests,         \* history: windows of the fetch_certificate_batch calls
    responses,        \* history: entries in each usable get-entries response
    consumed,         \* history: entries of responses handled in this run
    outcome,          \* history: how the last entry ended
    skipped,          \* history: indices skipped or irrelevant in this run
    hwmStart,         \* history: highest {source}_id when the run started
    prevExit,         \* history: how the previous run of the source ended
    handled,          \* history: log indices handled by any run
    skippedPrev,      \* history: skipped of the last run, if it completed
    allAuto,          \* history: no run had an explicit starting index
    last              \* history: the last make_https_request call of the run

shared == <<store, disk, logSize, clock, runs, job>>
argv == <<override, include_precerts, download_method>>
locals == <<starting_index, tree_size, current_index, ending_index, certs, cert>>
runHist == <<requests, responses, consumed, outcome, skipped, hwmStart, prevExit>>
srcHist == <<handled, skippedPrev, allAuto>>
vars == <<shared, pc, argv, locals, runHist, srcHist, last>>

\* No request made yet.
NoRequest == [at |-> "none", gets |-> <<>>, result |-> "none"]

\* History: the call is forgotten once the run has moved on.
Forget(p) == last' = [last EXCEPT ![p] = NoRequest]

\* History: the call made at `at` with these outcomes of its GETs.
Called(p, at, outs) ==
    last' = [last EXCEPT ![p] = [at |-> at,
                                 gets |-> Attempted(outs, 0),
                                 result |-> make_https_request(outs, 0)]]

NoCerts == [start |-> 0, len |-> 0, pos |-> 0]
Terminal == {"idle", "done", "fatal", "crashed"}
Running(p) == pc[p] \notin Terminal

\* The highest {source}_id in the store, 0 when there is none.
HighWaterMark(coll, source) ==
    LET ids == {coll[i].ids[source] : i \in 1..Len(coll)} \ {Absent}
    IN  IF ids = {} THEN 0 ELSE CHOOSE m \in ids : \A x \in ids : x <= m

\* Everything but the store and the logs, before the first run.
InitRest ==
    /\ disk = {}
    /\ clock = 0
    /\ runs = 0
    /\ job = [s \in Sources |-> "NOT_RUN"]
    /\ pc = [s \in Sources |-> "idle"]
    /\ override = [s \in Sources |-> NoOverride]
    /\ include_precerts = [s \in Sources |-> FALSE]
    /\ download_method = [s \in Sources |-> "dbAndSave"]
    /\ starting_index = [s \in Sources |-> 0]
    /\ tree_size = [s \in Sources |-> 0]
    /\ current_index = [s \in Sources |-> 0]
    /\ ending_index = [s \in Sources |-> 0]
    /\ certs = [s \in Sources |-> NoCerts]
    /\ cert = [s \in Sources |-> NoCert]
    /\ requests = [s \in Sources |-> <<>>]
    /\ responses = [s \in Sources |-> <<>>]
    /\ consumed = [s \in Sources |-> 0]
    /\ outcome = [s \in Sources |-> "none"]
    /\ skipped = [s \in Sources |-> {}]
    /\ hwmStart = [s \in Sources |-> 0]
    /\ prevExit = [s \in Sources |-> "idle"]
    /\ handled = [s \in Sources |-> {}]
    /\ skippedPrev = [s \in Sources |-> {}]
    /\ allAuto = [s \in Sources |-> TRUE]
    /\ last = [s \in Sources |-> NoRequest]

Init ==
    /\ store = <<>>
    /\ logSize = [s \in Sources |-> InitLog]
    /\ InitRest

(***************************************************************************)
(* main, step by step.                                                      *)
(***************************************************************************)
\* The process ends: its variables are gone, the exit status stays.
Exit(p, status, jobStatus) ==
    /\ pc' = [pc EXCEPT ![p] = status]
    /\ job' = [job EXCEPT ![p] = jobStatus]
    /\ override' = [override EXCEPT ![p] = NoOverride]
    /\ include_precerts' = [include_precerts EXCEPT ![p] = FALSE]
    /\ download_method' = [download_method EXCEPT ![p] = "dbAndSave"]
    /\ starting_index' = [starting_index EXCEPT ![p] = 0]
    /\ tree_size' = [tree_size EXCEPT ![p] = 0]
    /\ current_index' = [current_index EXCEPT ![p] = 0]
    /\ ending_index' = [ending_index EXCEPT ![p] = 0]
    /\ certs' = [certs EXCEPT ![p] = NoCerts]
    /\ cert' = [cert EXCEPT ![p] = NoCert]
    /\ requests' = [requests EXCEPT ![p] = <<>>]
    /\ responses' = [responses EXCEPT ![p] = <<>>]
    /\ consumed' = [consumed EXCEPT ![p] = 0]
    /\ outcome' = [outcome EXCEPT ![p] = "none"]
    /\ skipped' = [skipped EXCEPT ![p] = {}]
    /\ hwmStart' = [hwmStart EXCEPT ![p] = 0]
    /\ prevExit' = [prevExit EXCEPT ![p] = "idle"]
    /\ skippedPrev' = [skippedPrev EXCEPT ![p] =
                          IF status = "done" THEN skipped[p] ELSE {}]
    /\ UNCHANGED <<store, disk, logSize, clock, runs, handled, allAuto>>

\* Argument parsing and record_job_start (lines 378-438).
StartRun(p, ov, inc, dm) ==
    /\ pc[p] \in Terminal
    /\ pc' = [pc EXCEPT ![p] = "resolve"]
    /\ job' = [job EXCEPT ![p] = "RUNNING"]
    /\ override' = [override EXCEPT ![p] = ov]
    /\ include_precerts' = [include_precerts EXCEPT ![p] = inc]
    /\ download_method' = [download_method EXCEPT ![p] = dm]
    /\ clock' = clock + 1
    /\ runs' = runs + 1
    /\ hwmStart' = [hwmStart EXCEPT ![p] = HighWaterMark(store, p)]
    /\ prevExit' = [prevExit EXCEPT ![p] = pc[p]]
    /\ allAuto' = [allAuto EXCEPT ![p] = @ /\ ov = NoOverride]
    /\ last' = [s \in Sources |->
                   IF s = p \/ ~Running(s) THEN NoRequest ELSE last[s]]
    /\ UNCHANGED <<store, disk, logSize, locals, requests, responses, consumed,
                   outcome, skipped, handled, skippedPrev>>

\* Lines 440-444 and 449.
ResolveCursor(p) ==
    /\ pc[p] = "resolve"
    /\ LET start == IF override[p] = -1
                    THEN fetch_starting_index(store, p)
                    ELSE override[p]
       IN  /\ starting_index' = [starting_index EXCEPT ![p] = start]
           /\ current_index' = [current_index EXCEPT ![p] = start]
    /\ pc' = [pc EXCEPT ![p] = "sth"]
    /\ UNCHANGED last
    /\ UNCHANGED <<shared, argv, tree_size, ending_index, certs, cert, runHist,
                   srcHist>>

\* fetch_sth (line 446): json.loads(None) raises TypeError.
FetchSth(p, outs) ==
    /\ pc[p] = "sth"
    /\ Called(p, "sth", outs)
    /\ LET result == make_https_request(outs, 0)
       IN  CASE result = "text" ->
                  /\ tree_size' = [tree_size EXCEPT ![p] = logSize[p]]
                  /\ pc' = [pc EXCEPT ![p] = "loop"]
                  /\ UNCHANGED <<shared, argv, starting_index, current_index,
                                 ending_index, certs, cert, runHist, srcHist>>
             [] result = "None" -> Exit(p, "crashed", job[p])
             [] OTHER -> Exit(p, "fatal", "ERROR")

\* A while condition that stops one entry early.
LoopContinuesShort(ci, ts) == ci + 1 < ts

\* The while condition (line 450).
LoopContinues(ci, ts) == ci < ts

\* An ending_index that is not clipped to the tree size.
EndingIndexUnclipped(ci, ts) == ci + BatchWidth

\* ending_index of the window that starts at current_index (lines 451-453).
EndingIndex(ci, ts) == IF ci + BatchWidth > ts THEN ts ELSE ci + BatchWidth

\* Lines 450-453: the loop continues with the next window.
LoopTest(p) ==
    /\ pc[p] = "loop"
    /\ LoopContinues(current_index[p], tree_size[p])
    /\ ending_index' = [ending_index EXCEPT ![p] =
                           EndingIndex(current_index[p], tree_size[p])]
    /\ pc' = [pc EXCEPT ![p] = "fetch"]
    /\ Forget(p)
    /\ UNCHANGED <<shared, argv, starting_index, tree_size, current_index,
                   certs, cert, runHist, srcHist>>

\* Entries the log holds in start..end (get-entries takes end inclusive).
Avail(p) ==
    Max(0, Min(ending_index[p], logSize[p] - 1) - current_index[p] + 1)

\* A usable get-entries response: a prefix of the window, at most cap entries.
Response(p, cap) ==
    LET n == Min(Avail(p), cap)
    IN  /\ certs' = [certs EXCEPT ![p] =
                        [start |-> current_index[p], len |-> n, pos |-> 0]]
        /\ pc' = [pc EXCEPT ![p] = IF n = 0 THEN "loop" ELSE "entries"]
        /\ responses' = [responses EXCEPT ![p] =
                            IF Len(@) < MaxReq THEN Append(@, n) ELSE @]

\* History: the window of this fetch_certificate_batch call.
Requested(p) ==
    requests' = [requests EXCEPT ![p] =
                    IF Len(@) < MaxReq
                    THEN Append(@, <<current_index[p], ending_index[p]>>)
                    ELSE @]

\* A fetch_certificate_batch that gives up after the first request.
FetchNoRetry(p, outs, caps) ==
    /\ pc[p] = "fetch"
    /\ Called(p, "fetch", outs)
    /\ IF make_https_request(outs, 0) = "text"
       THEN /\ current_index[p] >= 0
            /\ \E cap \in caps : Response(p, cap)
            /\ Requested(p)
            /\ UNCHANGED <<shared, argv, starting_index, tree_size,
                           current_index, ending_index, cert, consumed,
                           outcome, skipped, hwmStart, prevExit, srcHist>>
       ELSE Exit(p, "fatal", "ERROR")

\* Lines 141-149: the first request of a window.  The log answers a
\* negative start with an error status.
Fetch(p, outs, caps) ==
    /\ pc[p] = "fetch"
    /\ Called(p, "fetch", outs)
    /\ LET result == make_https_request(outs, 0)
       IN  CASE result = "text" ->
                  /\ current_index[p] >= 0
                  /\ \E cap \in caps : Response(p, cap)
                  /\ Requested(p)
                  /\ UNCHANGED <<shared, argv, starting_index, tree_size,
                                 current_index, ending_index, cert, consumed,
                                 outcome, skipped, hwmStart, prevExit, srcHist>>
             [] result = "None" ->
                  /\ pc' = [pc EXCEPT ![p] = "retry"]
                  /\ Requested(p)
                  /\ UNCHANGED <<shared, argv, locals, responses, consumed,
                                 outcome, skipped, hwmStart, prevExit, srcHist>>
             [] OTHER -> Exit(p, "fatal", "ERROR")

\* A second request whose failure ends the process without the job error.
RetryNoError(p, outs, caps) ==
    /\ pc[p] = "retry"
    /\ Called(p, "retry", outs)
    /\ IF make_https_request(outs, 0) = "text"
       THEN /\ current_index[p] >= 0
            /\ \E cap \in caps : Response(p, cap)
            /\ UNCHANGED <<shared, argv, starting_index, tree_size,
                           current_index, ending_index, cert, requests,
                           consumed, outcome, skipped, hwmStart, prevExit,
                           srcHist>>
       ELSE Exit(p, "fatal", job[p])

\* Lines 151-173: the second request of a window, after the 600 s sleep.
Retry(p, outs, caps) ==
    /\ pc[p] = "retry"
    /\ Called(p, "retry", outs)
    /\ LET result == make_https_request(outs, 0)
       IN  CASE result = "text" ->
                  /\ current_index[p] >= 0
                  /\ \E cap \in caps : Response(p, cap)
                  /\ UNCHANGED <<shared, argv, starting_index, tree_size,
                                 current_index, ending_index, cert, requests,
                                 consumed, outcome, skipped, hwmStart, prevExit,
                                 srcHist>>
             [] OTHER -> Exit(p, "fatal", "ERROR")

\* A skip of an unparsable certificate that forgets to advance.
IndexAfterNoSkip(i, how) == IF how = "parse_none" THEN i ELSE i + 1

\* current_index after an entry that ended as `how` (lines 472, 475, 483,
\* 509).
IndexAfter(i, how) == i + 1

\* The entry of the response that the for loop is at, and its log index.
EntryIndex(p) == certs[p].start + certs[p].pos
CurrentEntry(p) == LogEntry(p, EntryIndex(p))

\* Lines 470-495 for one entry: how it ends, and the certificate to upsert.
Decide(entry, source, inc, index, now) ==
    IF LeafHeaderRaises(entry.leaf_input)
    THEN [outcome |-> "crash", cert |-> NoCert]
    ELSE
    Once(get_cert_from_leaf(entry.leaf_input), LAMBDA leaf :
    LET cert_type == leaf[2]
        der_cert  == IF leaf[1] = None /\ cert_type = 1
                     THEN get_cert_from_extra_data(entry.extra_data)
                     ELSE leaf[1]
    IN  IF leaf[1] = None /\ cert_type = 1 /\ ~inc
        THEN [outcome |-> "precert_excluded", cert |-> NoCert]
        ELSE IF leaf[1] = None /\ cert_type = 0
        THEN [outcome |-> "length_mismatch", cert |-> NoCert]
        ELSE IF leaf[1] = None /\ cert_type = 1
                /\ Base64Raises(entry.extra_data)
        THEN [outcome |-> "crash", cert |-> NoCert]
        ELSE
        Once(parse_data(der_cert, source, now), LAMBDA parsed :
        IF parsed = NoCert
        THEN [outcome |-> "parse_none", cert |-> NoCert]
        ELSE
        Once(check_zone_relevancy(parsed, zones), LAMBDA cert_zones :
        IF check_org_relevancy(parsed, ssl_orgs) \/ cert_zones # <<>>
        THEN [outcome |-> "relevant",
              cert |-> [parsed EXCEPT
                          !.ct_log_type = IF cert_type = 1
                                          THEN "PRE-CERTIFICATE"
                                          ELSE "CERTIFICATE",
                          !.ids[source] = index,
                          !.zones = cert_zones]]
        ELSE [outcome |-> "irrelevant", cert |-> NoCert])))

\* A loop that takes every response for the whole window: after the last
\* entry of a response current_index is set past ending_index.
AdvancePastWindow(p, how) ==
    /\ current_index' = [current_index EXCEPT ![p] =
                             IF certs[p].pos + 1 < certs[p].len
                             THEN IndexAfter(@, how)
                             ELSE ending_index[p] + 1]
    /\ certs' = [certs EXCEPT ![p].pos = @ + 1]
    /\ cert' = [cert EXCEPT ![p] = NoCert]
    /\ pc' = [pc EXCEPT ![p] =
                 IF certs[p].pos + 1 < certs[p].len THEN "entries" ELSE "loop"]
    /\ consumed' = [consumed EXCEPT ![p] = @ + 1]
    /\ outcome' = [outcome EXCEPT ![p] = how]
    /\ handled' = [handled EXCEPT ![p] = @ \cup {EntryIndex(p)}]
    /\ skipped' = [skipped EXCEPT ![p] =
                      IF how = "persisted" THEN @ ELSE @ \cup {EntryIndex(p)}]
    /\ UNCHANGED <<starting_index, tree_size, ending_index, requests, responses,
                   hwmStart, prevExit, skippedPrev, allAuto>>

\* The for loop moves to the next entry; current_index advances.
Advance(p, how) ==
    /\ current_index' = [current_index EXCEPT ![p] = IndexAfter(@, how)]
    /\ certs' = [certs EXCEPT ![p].pos = @ + 1]
    /\ cert' = [cert EXCEPT ![p] = NoCert]
    /\ pc' = [pc EXCEPT ![p] =
                 IF certs[p].pos + 1 < certs[p].len THEN "entries" ELSE "loop"]
    /\ consumed' = [consumed EXCEPT ![p] = @ + 1]
    /\ outcome' = [outcome EXCEPT ![p] = how]
    /\ handled' = [handled EXCEPT ![p] = @ \cup {EntryIndex(p)}]
    /\ skipped' = [skipped EXCEPT ![p] =
                      IF how = "persisted" THEN @ ELSE @ \cup {EntryIndex(p)}]
    /\ UNCHANGED <<starting_index, tree_size, ending_index, requests, responses,
                   hwmStart, prevExit, skippedPrev, allAuto>>

\* Lines 469-504: decode and filter one entry, up to the find of
\* insert_certificate.
ProcessEntry(p) ==
    /\ pc[p] = "entries"
    /\ Forget(p)
    /\ \E d \in {Decide(CurrentEntry(p), p, include_precerts[p],
                        current_index[p], clock)} :
           CASE d.outcome = "crash" -> Exit(p, "crashed", job[p])
             [] d.outcome = "relevant" ->
                  /\ cert' = [cert EXCEPT ![p] = d.cert]
                  /\ pc' = [pc EXCEPT ![p] = UpsertBranch(store, d.cert)]
                  /\ UNCHANGED <<shared, argv, starting_index, tree_size,
                                 current_index, ending_index, certs, runHist,
                                 srcHist>>
             [] OTHER ->
                  /\ Advance(p, d.outcome)
                  /\ UNCHANGED <<shared, argv>>

\* An export that does not look at the download method.
WriteFileAnyMode(files, c, source, dm) ==
    IF c.raw # "BAD"
    THEN files \cup {<<source, c.ids[source]>>}
    ELSE files

\* write_file (lines 303-341), when download_method is dbAndSave.
WriteFile(files, c, source, dm) ==
    IF dm = "dbAndSave" /\ c.raw # "BAD"
    THEN files \cup {<<source, c.ids[source]>>}
    ELSE files

\* An insert that credits the new record to every source.
InsertOneShared(p) ==
    /\ pc[p] = "insert"
    /\ store' = Append(store, [cert[p] EXCEPT !.sources = Sources])
    /\ disk' = WriteFile(disk, cert[p], p, download_method[p])
    /\ Advance(p, "persisted")
    /\ UNCHANGED <<logSize, clock, runs, job, argv, last>>

\* Line 287, then lines 506-509.
InsertOne(p) ==
    /\ pc[p] = "insert"
    /\ store' = Append(store, cert[p])
    /\ disk' = WriteFile(disk, cert[p], p, download_method[p])
    /\ Advance(p, "persisted")
    /\ UNCHANGED <<logSize, clock, runs, job, argv, last>>

\* Lines 289-300, then lines 506-509.
UpdateMany(p) ==
    /\ pc[p] = "update"
    /\ store' = UpdateCertificate(store, cert[p], p, cert[p].zones, clock)
    /\ disk' = WriteFile(disk, cert[p], p, download_method[p])
    /\ Advance(p, "persisted")
    /\ UNCHANGED <<logSize, clock, runs, job, argv, last>>

\* The process dies inside the for loop: killed, or an exception of the
\* store driver or of the decoder that main does not catch.
Crash(p) ==
    /\ pc[p] \in {"entries", "insert", "update"}
    /\ Exit(p, "crashed", job[p])
    /\ Forget(p)

\* Lines 511-515, reached when the while loop ends.
Sweep(p) ==
    /\ pc[p] = "loop"
    /\ ~LoopContinues(current_index[p], tree_size[p])
    /\ store' = SweepExpired(store, clock)
    /\ pc' = [pc EXCEPT ![p] = "complete"]
    /\ Forget(p)
    /\ UNCHANGED <<disk, logSize, clock, runs, job, argv, locals, runHist,
                   srcHist>>

\* Line 517: record_job_complete, and the process ends with status 0.
Complete(p) ==
    /\ pc[p] = "complete"
    /\ Exit(p, "done", "COMPLETE")
    /\ Forget(p)

\* The log accepts one more entry.  A run observes the size of its log only
\* through get-sth and get-entries, so growth is taken right before them.
Grow(s) ==
    /\ logSize[s] < MaxLog
    /\ pc[s] \in {"sth", "fetch"}
    /\ logSize' = [logSize EXCEPT ![s] = @ + 1]
    /\ UNCHANGED last
    /\ UNCHANGED <<store, disk, clock, runs, job, pc, argv, locals, runHist,
                   srcHist>>

(***************************************************************************)
(* Specifications.                                                          *)
(***************************************************************************)
Overrides == {NoOverride, -2, 1}
Methods == {"dbAndSave", "dbOnly"}

\* Outcomes of an attempt and of its retry; the retry matters after a
\* timeout, where it succeeds or times out again.
OutcomePairs ==
    {outs \in Outcomes \X Outcomes :
        \/ outs[2] = "OK"
        \/ "Timeout" \in Bases(outs[1]) /\ "Timeout" \in Bases(outs[2])}

\* The steps of a run that has started; caps are the page sizes of the log.
Step(p, caps) ==
    \/ ResolveCursor(p)
    \/ \E outs \in OutcomePairs : FetchSth(p, outs)
    \/ LoopTest(p)
    \/ \E outs \in OutcomePairs : Fetch(p, outs, caps)
    \/ \E outs \in OutcomePairs : Retry(p, outs, caps)
    \/ ProcessEntry(p)
    \/ InsertOne(p)
    \/ UpdateMany(p)
    \/ Crash(p)
    \/ Sweep(p)
    \/ Complete(p)

\* Any page size, the empty response included.
AnyCap == 0..(MaxLog + 1)

\* Runs of the two sources, one after the other, against growing logs.
StartSeq(p) ==
    /\ runs < MaxRuns
    /\ \A q \in Sources : ~Running(q)
    /\ \E ov \in Overrides, inc \in BOOLEAN, dm \in Methods :
          StartRun(p, ov, inc, dm)

Next == \E p \in Sources : StartSeq(p) \/ Step(p, AnyCap) \/ Grow(p)

Spec == Init /\ [][Next]_vars

\* Cursor resolution against stores drawn from a bounded set: up to MaxRecs
\* records of distinct fingerprints, each with a {source}_id for at least
\* one source.
CursorIds(s) == IF s = "a" THEN {Absent, 5, 9, 12} ELSE {Absent, 20}

CursorIdMaps ==
    {f \in [Sources -> {Absent, 5, 9, 12, 20}] :
        /\ \A s \in Sources : f[s] \in CursorIds(s)
        /\ \E s \in Sources : f[s] # Absent}

CursorRecords ==
    {[parse_data(<<b>>, "a", 0) EXCEPT
          !.ids = f,
          !.ct_log_type = "CERTIFICATE",
          !.sources = {s \in Sources : f[s] # Absent}] :
        b \in DOMAIN CertTable, f \in CursorIdMaps}

CursorStores ==
    UNION {{coll \in [1..n -> CursorRecords] :
               \A i, j \in 1..n :
                   coll[i].fingerprint_sha256 = coll[j].fingerprint_sha256
                       => i = j} : n \in 0..MaxRecs}

InitCursor ==
    /\ store \in CursorStores
    /\ logSize = [s \in Sources |-> InitLog]
    /\ InitRest

StartCursor(p) ==
    /\ \A q \in Sources : ~Running(q)
    /\ \E ov \in Overrides : StartRun(p, ov, FALSE, "dbOnly")

NextCursor == \E p \in Sources : StartCursor(p) \/ ResolveCursor(p)

SpecCursor == InitCursor /\ [][NextCursor]_vars

\* The end-to-end scenario: one run of source "a" from index 0 against a log
\* of ScenarioTree entries that answers with pages of PageCap, BatchWidth or
\* BatchWidth + 1 entries (the last is the whole inclusive window).
PageCap == 100
WindowCaps == {PageCap, BatchWidth, BatchWidth + 1}

InitWindow ==
    /\ store = <<>>
    /\ logSize = [s \in Sources |-> ScenarioTree]
    /\ InitRest

StartWindow(p) ==
    /\ runs = 0
    /\ \E ov \in {NoOverride, 0} : StartRun(p, ov, FALSE, "dbOnly")

NextWindow == \E p \in {"a"} : StartWindow(p) \/ Step(p, WindowCaps)

SpecWindow == InitWindow /\ [][NextWindow]_vars

\* One run of source "a" that is always scheduled, against any server; the
\* store holds what a run of "b" left: the certificate at index 1 of its log.
InitLive ==
    /\ store = <<Decide(LogEntry("b", 1), "b", FALSE, 1, 0).cert>>
    /\ logSize = [s \in Sources |-> InitLog]
    /\ InitRest

StartLive(p) ==
    /\ runs = 0
    /\ \E ov \in Overrides, inc \in BOOLEAN, dm \in Methods :
          StartRun(p, ov, inc, dm)

NextLive == \E p \in {"a"} : StartLive(p) \/ Step(p, AnyCap) \/ Grow(p)

SpecLive == InitLive /\ [][NextLive]_vars /\ WF_vars(NextLive)

\* One run of each source at the same time, their steps interleaved; the
\* logs answer every request in full and no process dies.
StartConc(p) ==
    /\ pc[p] = "idle"
    /\ StartRun(p, NoOverride, FALSE, "dbOnly")

NextConc ==
    \E p \in Sources :
        \/ StartConc(p)
        \/ ResolveCursor(p)
        \/ FetchSth(p, <<"OK", "OK">>)
        \/ LoopTest(p)
        \/ Fetch(p, <<"OK", "OK">>, {BatchWidth + 1})
        \/ ProcessEntry(p)
        \/ InsertOne(p)
        \/ UpdateMany(p)
        \/ Sweep(p)
        \/ Complete(p)

SpecConc == Init /\ [][NextConc]_vars

\* Runs that walk the whole catalogue of entries: the logs are complete
\* from the start and answer every request in full.
DecodeStarts == {NoOverride, 4, 6}

InitDecode ==
    /\ store = <<>>
    /\ logSize = [s \in Sources |-> Len(LogPattern[s])]
    /\ InitRest

StartDecode(p) ==
    /\ runs < MaxRuns
    /\ \A q \in Sources : ~Running(q)
    /\ \E ov \in DecodeStarts, inc \in BOOLEAN : StartRun(p, ov, inc, "dbOnly")

NextDecode ==
    \E p \in Sources :
        \/ StartDecode(p)
        \/ ResolveCursor(p)
        \/ FetchSth(p, <<"OK", "OK">>)
        \/ LoopTest(p)
        \/ Fetch(p, <<"OK", "OK">>, {BatchWidth + 1})
        \/ ProcessEntry(p)
        \/ InsertOne(p)
        \/ UpdateMany(p)
        \/ Sweep(p)
        \/ Complete(p)

SpecDecode == InitDecode /\ [][NextDecode]_vars

\* The same runs, none of which stops while it has a step to take.
SpecDecodeLive == SpecDecode /\ WF_vars(NextDecode)

\* Calls of check_zone_relevancy on certificates and zone lists drawn from
\* bounded sets; the store holds the certificate of the call, with the zone
\* list it is matched against and the number of calls made.
MaxCalls == 2
ZoneC == <<"c">>
NamePool ==
    {ZoneEC, <<"a", ".", "e", ".", "c">>, <<"n", "e", ".", "c">>,
     <<"e", ".", "c", ".", "x">>, ZoneDO, <<"w", ".", "d", ".", "o">>,
     <<"x">>}
NameLists(n) == UNION {[1..k -> NamePool] : k \in 0..n}
ZoneLists ==
    {<<ZoneEC, ZoneDO>>, <<ZoneDO, ZoneEC>>, <<ZoneC, ZoneEC>>,
     <<ZoneEC, ZoneC, ZoneDO>>}

InitZones ==
    /\ \E cns \in NameLists(2), dns \in NameLists(1), zs \in ZoneLists :
          store = <<[subject_common_names |-> cns,
                     subject_dns_names |-> dns,
                     tracked |-> zs,
                     zones |-> <<>>,
                     calls |-> 0]>>
    /\ logSize = [s \in Sources |-> 0]
    /\ InitRest

MatchZones ==
    /\ store[1].calls < MaxCalls
    /\ store' = <<[store[1] EXCEPT
                     !.zones = check_zone_relevancy(store[1], store[1].tracked),
                     !.calls = @ + 1]>>
    /\ UNCHANGED <<disk, logSize, clock, runs, job, pc, argv, locals, runHist,
                   srcHist, last>>

NextZones == MatchZones

SpecZones == InitZones /\ [][NextZones]_vars

\* One run from index 0 over a complete log, against a store that earlier
\* runs have filled: up to two records of distinct fingerprints, stored by
\* either source or both, matched against the zone list of their time.
UpsertIdMaps ==
    {f \in [Sources -> {Absent, 2, 3}] :
        /\ f["a"] \in {Absent, 2}
        /\ f["b"] \in {Absent, 3}
        /\ \E s \in Sources : f[s] # Absent}

UpsertRecords ==
    {[parse_data(<<b>>, "a", 0) EXCEPT
          !.ids = f,
          !.ct_log_type = IF e THEN "PRE-CERTIFICATE" ELSE "CERTIFICATE",
          !.zones = z,
          !.isExpired = e,
          !.sources = {s \in Sources : f[s] # Absent}] :
        b \in {DerOrg[1], DerZone[1]}, f \in UpsertIdMaps,
        z \in {<<ZoneC>>, <<ZoneEC, ZoneDO>>}, e \in BOOLEAN}

UpsertStores ==
    UNION {{coll \in [1..n -> UpsertRecords] :
               \A i, j \in 1..n :
                   coll[i].fingerprint_sha256 = coll[j].fingerprint_sha256
                       => i = j} : n \in 0..2}

InitUpsert ==
    /\ store \in UpsertStores
    /\ logSize = [s \in Sources |-> Len(LogPattern[s])]
    /\ InitRest

StartUpsert(p) ==
    /\ runs = 0
    /\ \E inc \in BOOLEAN, dm \in Methods : StartRun(p, 0, inc, dm)

NextUpsert ==
    \E p \in Sources :
        \/ StartUpsert(p)
        \/ ResolveCursor(p)
        \/ FetchSth(p, <<"OK", "OK">>)
        \/ LoopTest(p)
        \/ Fetch(p, <<"OK", "OK">>, {BatchWidth + 1})
        \/ ProcessEntry(p)
        \/ InsertOne(p)
        \/ UpdateMany(p)
        \/ Sweep(p)
        \/ Complete(p)

SpecUpsert == InitUpsert /\ [][NextUpsert]_vars

\* Runs over complete logs that resume from the stored cursor or start
\* again from index 0; log a has gone once round its pattern, so that the
\* certificate at index 0 is logged again at the last index.
InitRewind ==
    /\ store = <<>>
    /\ logSize = [s \in Sources |->
                     IF s = "a" THEN Len(LogPattern[s]) + 1
                     ELSE Len(LogPattern[s])]
    /\ InitRest

StartRewind(p) ==
    /\ runs < MaxRuns
    /\ \A q \in Sources : ~Running(q)
    /\ \E ov \in {NoOverride, 0}, inc \in BOOLEAN :
          StartRun(p, ov, inc, "dbOnly")

NextRewind ==
    \E p \in Sources :
        \/ StartRewind(p)
        \/ ResolveCursor(p)
        \/ FetchSth(p, <<"OK", "OK">>)
        \/ LoopTest(p)
        \/ Fetch(p, <<"OK", "OK">>, {BatchWidth + 1})
        \/ ProcessEntry(p)
        \/ InsertOne(p)
        \/ UpdateMany(p)
        \/ Sweep(p)
        \/ Complete(p)

SpecRewind == InitRewind /\ [][NextRewind]_vars

(***************************************************************************)
(* The perform_* wrappers of MongoConnector and RemoteMongoConnector.  A    *)
(* process calls a wrapper on the collection; `last` holds the call: the    *)
(* wrapper, the outcomes of the attempts made, num_tries, the seconds       *)
(* slept and the result (<<>> until the wrapper returns one).              *)
(***************************************************************************)
MaxTries == 5
SleepSeconds == 5
Connectors == {"MongoConnector", "RemoteMongoConnector"}
Operations == {"find", "find_one", "count", "distinct", "insert"}
\* What one attempt of the store operation ends with.
AttemptOutcomes == {"OK", "AutoReconnect", "OperationFailure"}

\* The query and the document of the calls.
QueryDoc == [fingerprint_sha256 |-> "f1"]

\* What the store operation returns when it succeeds.
OperationResult(op, coll) ==
    LET found == SelectSeq(coll, LAMBDA d : d = QueryDoc)
    IN  CASE op = "find" -> found
          [] op = "find_one" -> IF found = <<>> THEN None ELSE found[1]
          [] op = "count" -> Len(found)
          [] op = "distinct" ->
               {coll[i].fingerprint_sha256 : i \in 1..Len(coll)}
          [] OTHER -> "InsertOneResult"

\* The collection after the store operation has succeeded.
OperationEffect(op, coll) ==
    IF op = "insert" THEN Append(coll, QueryDoc) ELSE coll

\* A retry test that allows one retry more.
RetryAllowedInclusive(num_tries) == num_tries <= MaxTries

\* The test of the except clause: num_tries < 5.
RetryAllowed(num_tries) == num_tries < MaxTries

InitRetry ==
    /\ store = <<>>
    /\ logSize = [s \in Sources |-> 0]
    /\ InitRest

\* A process calls a wrapper: success = False, num_tries = 0.
PerformStart(p, conn, op) ==
    /\ pc[p] \in {"idle", "returned"}
    /\ runs < MaxRuns
    /\ runs' = runs + 1
    /\ pc' = [pc EXCEPT ![p] = "perform"]
    /\ last' = [last EXCEPT ![p] =
                   [at |-> <<conn, op>>, gets |-> <<>>, result |-> <<>>,
                    num_tries |-> 0, slept |-> 0]]
    /\ UNCHANGED <<store, disk, logSize, clock, job, argv, locals, runHist,
                   srcHist>>

\* One iteration of the while loop: the attempt succeeds, raises
\* AutoReconnect, or raises another exception, which the wrapper lets go.
PerformAttempt(p, out) ==
    /\ pc[p] = "perform"
    /\ LET call == last[p]
           op   == call.at[2]
           made == [call EXCEPT !.gets = Append(@, out)]
       IN  CASE out = "OK" ->
                  /\ store' = OperationEffect(op, store)
                  /\ last' = [last EXCEPT ![p] =
                                 [made EXCEPT
                                    !.result = <<OperationResult(op, store)>>]]
                  /\ pc' = [pc EXCEPT ![p] = "returned"]
             [] out = "AutoReconnect" /\ RetryAllowed(call.num_tries) ->
                  /\ last' = [last EXCEPT ![p] =
                                 [made EXCEPT !.num_tries = @ + 1,
                                              !.slept = @ + SleepSeconds]]
                  /\ UNCHANGED <<store, pc>>
             [] out = "AutoReconnect" /\ ~RetryAllowed(call.num_tries) ->
                  /\ last' = [last EXCEPT ![p] = made]
                  /\ pc' = [pc EXCEPT ![p] = "fatal"]
                  /\ UNCHANGED store
             [] OTHER ->
                  /\ last' = [last EXCEPT ![p] = made]
                  /\ pc' = [pc EXCEPT ![p] = "crashed"]
                  /\ UNCHANGED store
    /\ UNCHANGED <<disk, logSize, clock, runs, job, argv, locals, runHist,
                   srcHist>>

NextRetry ==
    \E p \in {"a"} :
        \/ \E conn \in Connectors, op \in Operations : PerformStart(p, conn, op)
        \/ \E out \in AttemptOutcomes : PerformAttempt(p, out)

\* A wrapper that has been called goes on until it returns or the process
\* ends.
SpecRetry == InitRetry /\ [][NextRetry]_vars /\ WF_vars(NextRetry)

(***************************************************************************)
(* Properties of the batch loop and of the cursor.                          *)
(***************************************************************************)
\* The for loop has moved from one entry of the response to the next.
EntryDone(p) ==
    /\ certs'[p].start = certs[p].start
    /\ certs'[p].len = certs[p].len
    /\ certs'[p].pos = certs[p].pos + 1

EntryOutcomes ==
    {"precert_excluded", "length_mismatch", "parse_none", "irrelevant",
     "persisted"}

\* C1: every entry of a get-entries response moves current_index up by
\* exactly one, however the entry ended (excluded precertificate, length
\* mismatch, parser returning None, irrelevant, persisted), and inside the
\* for loop current_index moves in no other way.
C1_IndexAdvancesByOne ==
    [][\A p \in Sources :
          /\ EntryDone(p) =>
                /\ current_index'[p] = current_index[p] + 1
                /\ outcome'[p] \in EntryOutcomes
          /\ (pc[p] \in {"entries", "insert", "update"} /\ Running(p)'
                /\ current_index'[p] # current_index[p]) => EntryDone(p)]_vars

\* C1 witness: a run has handled an irrelevant, a persisted and an
\* unparsable entry and its index stands three above its start.
C1_Witness ==
    \E p \in Sources :
        /\ outcome[p] = "parse_none"
        /\ consumed[p] = 3
        /\ current_index[p] = starting_index[p] + 3

\* C2: while every run of a source was started without an explicit index,
\* every index below the tree size of a run that completes normally has been
\* handled by some run, and a run never stands above an unhandled index.
C2_NoIndexSkipped ==
    \A p \in Sources :
        allAuto[p] =>
            /\ pc[p] = "complete" =>
                  \A i \in 0..(tree_size[p] - 1) : i \in handled[p]
            /\ pc[p] \in {"sth", "loop", "fetch", "retry", "entries",
                          "insert", "update"} =>
                  \A i \in 0..(current_index[p] - 1) : i \in handled[p]

\* C2 witness: a run without explicit index completes after the previous
\* run of the source died inside a batch, having persisted index 1.
C2_Witness ==
    /\ pc["a"] = "complete"
    /\ allAuto["a"]
    /\ prevExit["a"] = "crashed"
    /\ starting_index["a"] = 1
    /\ tree_size["a"] = 3

C6_Claim ==
    \A p \in Sources :
        pc[p] \notin (Terminal \cup {"resolve"}) =>
            /\ current_index[p] >= 0
            /\ override[p] >= 0 => starting_index[p] = override[p]
            /\ override[p] < 0 => starting_index[p] = hwmStart[p]

\* C8 as claimed: when the loop has ended normally current_index equals
\* tree_size, and no entry at or above tree_size is decoded or persisted.
C8_Claim ==
    \A p \in Sources :
        /\ pc[p] = "complete" => current_index[p] = tree_size[p]
        /\ pc[p] \in {"entries", "insert", "update"} =>
              EntryIndex(p) < tree_size[p]

(***************************************************************************)
(* Properties of the upsert.                                                *)
(***************************************************************************)
UniqueFingerprints ==
    \A i, j \in 1..Len(store) :
        store[i].fingerprint_sha256 = store[j].fingerprint_sha256 => i = j

\* update_many of insert_certificate has just run for process p.
Updated(p) == pc[p] = "update" /\ pc'[p] \in {"entries", "loop"}

\* C9: when insert_certificate calls do not overlap, the store holds one
\* record per fingerprint; an upsert of a stored fingerprint adds no record,
\* sets marinus_updated to the current time and adds the source to sources,
\* keeping the sources already there.
C9_SequentialUpsertKeepsOneRecord ==
    /\ []UniqueFingerprints
    /\ [][\A p \in Sources :
             Updated(p) =>
                /\ Len(store') = Len(store)
                /\ \A i \in 1..Len(store) :
                      store[i].fingerprint_sha256 = cert[p].fingerprint_sha256
                          => /\ store'[i].marinus_updated = clock
                             /\ store'[i].sources = store[i].sources \cup {p}]_vars

\* C9 witness: one record, seen first by one source and then by the other.
C9_Witness ==
    \E i \in 1..Len(store) :
        /\ store[i].sources = {"a", "b"}
        /\ store[i].marinus_updated = 2
        /\ FindCount(store, store[i].fingerprint_sha256) = 1

(***************************************************************************)
(* Termination.                                                             *)
(***************************************************************************)
\* C4 as claimed: every run that has started ends, completed or exited,
\* whatever the log server answers.
C4_Claim == \A p \in Sources : Running(p) ~> ~Running(p)

(***************************************************************************)
(* Cursor resolution.                                                       *)
(***************************************************************************)
\* The {source}_id values present in a collection.
StoredIds(coll, source) ==
    {coll[i].ids[source] : i \in 1..Len(coll)} \ {Absent}

\* C5: without an explicit starting index the run starts at the maximum
\* {source}_id of the stored records that have one for its source
\* (12 for {5, 12, 9}) and at 0 when none has; the ids of other sources do
\* not count.
C5_CursorIsMaxId ==
    \A p \in Sources :
        (pc[p] = "sth" /\ override[p] = NoOverride) =>
            LET ids == StoredIds(store, p)
            IN  /\ ids = {} => starting_index[p] = 0
                /\ ids # {} => /\ starting_index[p] \in ids
                               /\ \A x \in ids : x <= starting_index[p]
                /\ ids = {5, 9, 12} => starting_index[p] = 12

\* C5 witness: the stored ids of "a" are 5, 12, 9 in this order, a record
\* has the id 20 for "b", and the run of "a" starts at 12.
C5_Witness ==
    /\ pc["a"] = "sth"
    /\ override["a"] = NoOverride
    /\ Len(store) = 3
    /\ <<store[1].ids["a"], store[2].ids["a"], store[3].ids["a"]>> = <<5, 12, 9>>
    /\ store[1].ids["b"] = 20
    /\ starting_index["a"] = 12

(***************************************************************************)
(* Windows of the get-entries requests.                                     *)
(***************************************************************************)
\* The window of a request is well formed for the run's tree size.
WindowOk(start, end, ts) ==
    /\ start < ts
    /\ end = Min(start + 256, ts)

\* C7 as claimed, for the scenario: tree_size 300, starting index 0, and the
\* run issues exactly the two windows [0,256] and [256,300].
C7_Original ==
    (pc["a"] = "complete" /\ tree_size["a"] = 300 /\ starting_index["a"] = 0)
        => requests["a"] = << <<0, 256>>, <<256, 300>> >>

\* C7 as amended: every get-entries request has start = current_index and
\* end = min(current_index + 256, tree_size) with current_index < tree_size;
\* for tree_size 300 and starting index 0 the first window is [0,256], and
\* the run issues exactly the windows [0,256] and [256,300] when the log
\* answers the first with 256 entries and the second with the 44 that remain.
C7_Windows ==
    \A p \in Sources :
        /\ pc[p] \in {"fetch", "retry"} =>
              WindowOk(current_index[p], ending_index[p], tree_size[p])
        /\ Running(p) =>
              \A k \in 1..Len(requests[p]) :
                  WindowOk(requests[p][k][1], requests[p][k][2], tree_size[p])
        /\ (Running(p) /\ tree_size[p] = 300 /\ starting_index[p] = 0) =>
              /\ requests[p] # <<>> => requests[p][1] = <<0, 256>>
              /\ (pc[p] = "complete" /\ responses[p] = <<256, 44>>) =>
                    requests[p] = << <<0, 256>>, <<256, 300>> >>

\* C7 witness: the scenario run has completed after two windows answered
\* with 256 and 44 entries.
C7_Witness ==
    /\ pc["a"] = "complete"
    /\ tree_size["a"] = 300
    /\ starting_index["a"] = 0
    /\ responses["a"] = <<256, 44>>
    /\ requests["a"] = << <<0, 256>>, <<256, 300>> >>

(***************************************************************************)
(* Overlapping runs.                                                        *)
(***************************************************************************)
\* C10 as claimed: with the store operations of two runs interleaved, no
\* two records of the store have the same fingerprint_sha256.
C10_Claim ==
    \A f \in {"f1", "f2", "f3"} : FindCount(store, f) <= 1

(***************************************************************************)
(* Failures of the requests.                                                *)
(***************************************************************************)
\* The GET ended with an exception that is a requests Timeout.
TimedOut(out) == out \notin {"OK", "Status204"} /\ "Timeout" \in Bases(out)

\* C11 as claimed: a call of make_https_request whose first GET times out
\* performs exactly one more GET, and ends the run only when that one times
\* out too.
C11_Claim ==
    \A p \in Sources :
        (last[p].gets # <<>> /\ TimedOut(last[p].gets[1])) =>
            /\ Len(last[p].gets) = 2
            /\ last[p].result = "exit" => TimedOut(last[p].gets[2])

\* C12: fetch_certificate_batch makes its second request only after a first
\* one without usable result, and no third one: a usable result of either
\* request goes to the for loop, a second result of None records the job
\* error and ends the process with non-zero status.
C12_BatchRetriedOnce ==
    /\ [](\A p \in Sources :
            /\ pc[p] = "retry" =>
                  last[p].at = "fetch" /\ last[p].result = "None"
            /\ (last[p].at = "fetch" /\ last[p].result = "None") =>
                  pc[p] = "retry"
            /\ (last[p].at \in {"fetch", "retry"} /\ last[p].result = "text") =>
                  pc[p] \in {"entries", "loop"}
            /\ (last[p].at = "retry" /\ last[p].result # "text") =>
                  pc[p] = "fatal" /\ job[p] = "ERROR")
    /\ [][\A p \in Sources :
             /\ pc'[p] = "retry" => pc[p] \in {"fetch", "retry"}
             /\ (pc[p] = "retry" /\ last'[p] # last[p]) =>
                   /\ last'[p].at = "retry"
                   /\ pc'[p] \in {"entries", "loop", "fatal"}]_vars

\* C12 witness: both requests of a window ended without usable result.
C12_Witness ==
    \E p \in Sources :
        /\ pc[p] = "fatal"
        /\ job[p] = "ERROR"
        /\ last[p].at = "retry"
        /\ last[p].result = "None"

\* C13 as claimed: after a get-sth without usable result the run goes on
\* (to its delayed retry) or has ended as fatal with the job error recorded.
C13_Claim ==
    \A p \in Sources :
        (last[p].at = "sth" /\ last[p].result = "None") =>
            \/ Running(p)
            \/ pc[p] = "fatal" /\ job[p] = "ERROR"

\* The call that ended the run: make_https_request exited (connection
\* error, request exception, timeout, unknown exception), or the second
\* request of a window gave None.
FetchFailure(p) ==
    \/ last[p].result = "exit"
    \/ last[p].at = "retry" /\ last[p].result = "None"

\* C14: when a request ends the run in one of these ways the job error is
\* recorded and the process ends with non-zero status, without the sweep and
\* without record_job_complete; the sweep runs only when the while loop has
\* ended, and record_job_complete only after the sweep.
C14_FatalRecordsErrorAndSkipsSweep ==
    /\ [](\A p \in Sources :
            /\ FetchFailure(p) => pc[p] = "fatal" /\ job[p] = "ERROR"
            /\ pc[p] = "fatal" => job[p] = "ERROR"
            /\ job[p] = "COMPLETE" => pc[p] = "done")
    /\ [][\A p \in Sources :
             /\ (pc'[p] = "fatal" /\ pc[p] # "fatal") =>
                   /\ pc[p] \in {"sth", "fetch", "retry"}
                   /\ FetchFailure(p)'
                   /\ store' = store
             /\ (pc'[p] = "complete" /\ pc[p] # "complete") =>
                   /\ pc[p] = "loop"
                   /\ ~(current_index[p] < tree_size[p])
                   /\ store' = SweepExpired(store, clock)
             /\ (pc[p] = "complete" /\ pc'[p] # "complete") =>
                   pc'[p] = "done" /\ job'[p] = "COMPLETE"
             /\ (pc'[p] = "done" /\ pc[p] # "done") => pc[p] = "complete"]_vars

\* C14 witness: a connection error on a later window ends a run that has
\* already stored a certificate.
C14_Witness ==
    \E p \in Sources :
        /\ pc[p] = "fatal"
        /\ job[p] = "ERROR"
        /\ last[p].at = "fetch"
        /\ last[p].gets = <<"ConnectionError">>
        /\ store # <<>>
        /\ store[Len(store)].sources = {p}
        /\ store[Len(store)].isExpired = FALSE

(***************************************************************************)
(* The expiration sweep.                                                    *)
(***************************************************************************)
\* The records the filter of the sweep matches at time now.
Lapsed(rec, now) == rec.not_after < now /\ rec.isExpired = FALSE

\* The step of process p that runs the sweep.
SweepStep(p) == pc[p] = "loop" /\ pc'[p] = "complete"

\* C15: the sweep sets isExpired on every record, of any source, whose
\* not_after is earlier than now and whose isExpired is false; it changes no
\* other record and no other field, and a second sweep at the same instant
\* changes nothing.
C15_SweepMarksLapsedOnly ==
    [][\A p \in Sources : SweepStep(p) =>
          /\ Len(store') = Len(store)
          /\ \A i \in 1..Len(store) :
                IF Lapsed(store[i], clock)
                THEN store'[i] = [store[i] EXCEPT !.isExpired = TRUE]
                ELSE store'[i] = store[i]
          /\ \A i \in 1..Len(store') : ~Lapsed(store'[i], clock)
          /\ SweepExpired(store', clock) = store'
          /\ disk' = disk]_vars

\* C15 witness: the sweep of one source has marked a record that only the
\* other source, which never swept, had stored, next to a record that is
\* not yet due.
C15_Witness ==
    \E p \in Sources : \E q \in Sources \ {p} :
        /\ pc[p] = "complete"
        /\ job[q] \in {"ERROR", "RUNNING"}
        /\ \E i \in 1..Len(store) :
              /\ store[i].sources = {q}
              /\ store[i].not_after < clock
              /\ store[i].isExpired
        /\ \E j \in 1..Len(store) :
              /\ store[j].not_after >= clock
              /\ ~store[j].isExpired

\* C16: a stored record whose isExpired is true keeps it through every later
\* upsert, of any source, and every later sweep; isExpired of an existing
\* record changes only in the sweep, and only from false to true.
C16_ExpiredStaysExpired ==
    [][\A i \in 1..Len(store) :
          /\ i <= Len(store')
          /\ store[i].isExpired => store'[i].isExpired
          /\ store'[i].isExpired # store[i].isExpired =>
                /\ \E p \in Sources : SweepStep(p)
                /\ store[i].isExpired = FALSE
                /\ store'[i].isExpired = TRUE]_vars

\* C16 witness: a record the sweep of an earlier run marked has since been
\* updated by the other source and is still marked.
C16_Witness ==
    \E i \in 1..Len(store) :
        /\ store[i].isExpired
        /\ store[i].sources = Sources
        /\ store[i].marinus_updated = clock
        /\ \E p \in Sources : pc[p] = "entries" /\ outcome[p] = "persisted"

(***************************************************************************)
(* Properties of the leaf decoder.                                          *)
(***************************************************************************)
\* The value of the 3-byte length prefix of a decoded leaf_input.
DeclaredLength(leaf) == FromBytes(Slice(read_leaf_header(leaf).Entry, 0, 3))

\* The length check of get_cert_from_leaf passes.
ConsistentLeaf(leaf) ==
    /\ ~LeafHeaderRaises(leaf)
    /\ DeclaredLength(leaf) = Len(SliceFrom(read_leaf_header(leaf).Entry, 3)) - 2

\* The entry type of the entry the for loop is at.
EntryType(p) == read_leaf_header(CurrentEntry(p).leaf_input).LogEntryType

\* C17 as claimed: for an X.509 entry with consistent length fields the
\* certificate returned by get_cert_from_leaf has the declared length L.
C17_Claim ==
    \A p \in Sources :
        (/\ pc[p] = "entries"
         /\ ConsistentLeaf(CurrentEntry(p).leaf_input)
         /\ EntryType(p) = 0) =>
            Len(get_cert_from_leaf(CurrentEntry(p).leaf_input)[1])
                = DeclaredLength(CurrentEntry(p).leaf_input)

\* Process p takes a step while its for loop is at an entry of this type.
EntryStep(p, types) ==
    /\ pc[p] = "entries"
    /\ ~LeafHeaderRaises(CurrentEntry(p).leaf_input)
    /\ EntryType(p) \in types
    /\ pc'[p] # pc[p] \/ certs'[p] # certs[p]

\* The entry is skipped: nothing stored or written, the for loop and
\* current_index move on by one.
SkippedAs(p, how) ==
    /\ EntryDone(p)
    /\ outcome'[p] = how
    /\ current_index'[p] = current_index[p] + 1
    /\ cert'[p] = NoCert
    /\ store' = store
    /\ disk' = disk

\* C18: for a precertificate entry, when include_precerts is false, no
\* certificate is extracted, extra_data is not decoded (so an undecodable
\* extra_data does no harm), nothing is parsed or stored, and current_index
\* moves up by one.
C18_ExcludedPrecertSkipped ==
    [][\A p \in Sources :
          (EntryStep(p, {1}) /\ ~include_precerts[p]) =>
              /\ get_cert_from_leaf(CurrentEntry(p).leaf_input) = <<None, 1>>
              /\ SkippedAs(p, "precert_excluded")]_vars

\* C18 witness: a run without include_precerts has passed the
\* precertificate whose extra_data cannot be decoded.
C18_Witness ==
    /\ pc["b"] = "entries"
    /\ ~include_precerts["b"]
    /\ LogEntry("b", EntryIndex("b") - 1) = EntryPrecertMalformed
    /\ certs["b"].pos > 0
    /\ outcome["b"] = "precert_excluded"
    /\ current_index["b"] = EntryIndex("b")

\* The bytes that follow the 3-byte prefix of extra_data, L + 1 of them or
\* as many as there are.
PrecertBytes(data) ==
    LET L == data[1] * 65536 + data[2] * 256 + data[3]
        n == Min(L + 1, Len(data) - 3)
    IN  [k \in 1..n |-> data[3 + k]]

\* C19: for a precertificate entry, when include_precerts is true, the
\* certificate is the slice [3 : L+4] of the decoded extra_data, L being its
\* first three bytes (L + 1 bytes when extra_data is long enough); the entry
\* ends as the parser and the filter decide for these bytes, not for the
\* payload of the leaf, and a record stored for it is labelled
\* PRE-CERTIFICATE.
C19_PrecertFromExtraData ==
    [][\A p \in Sources :
          /\ (/\ EntryStep(p, {1})
              /\ include_precerts[p]
              /\ ~Base64Raises(CurrentEntry(p).extra_data)) =>
                LET data   == CurrentEntry(p).extra_data
                    der    == get_cert_from_extra_data(data)
                    parsed == parse_data(PrecertBytes(data), p, clock)
                IN  /\ der = PrecertBytes(data)
                    /\ parsed = NoCert => SkippedAs(p, "parse_none")
                    /\ parsed # NoCert =>
                          \/ SkippedAs(p, "irrelevant")
                          \/ /\ pc'[p] \in {"insert", "update"}
                             /\ cert'[p].fingerprint_sha256
                                   = parsed.fingerprint_sha256
                             /\ cert'[p].ct_log_type = "PRE-CERTIFICATE"
                             /\ cert'[p].ids[p] = current_index[p]
          /\ (/\ pc[p] \in {"insert", "update"}
              /\ pc'[p] # pc[p]) =>
                \E i \in 1..Len(store') :
                    /\ store'[i].fingerprint_sha256 = cert[p].fingerprint_sha256
                    /\ store'[i].ct_log_type = cert[p].ct_log_type
                    /\ store'[i].ids[p] = current_index[p]]_vars

\* C19 witness: the precertificate at index 1 of log a, whose extra_data
\* holds more than the declared three bytes, is about to be inserted with
\* the four bytes of the slice as its certificate.
C19_Witness ==
    /\ pc["a"] = "insert"
    /\ include_precerts["a"]
    /\ EntryIndex("a") = 1
    /\ CurrentEntry("a") = EntryPrecert
    /\ cert["a"].ct_log_type = "PRE-CERTIFICATE"
    /\ cert["a"].fingerprint_sha256 = CertTable[DerZone[1]].fingerprint_sha256
    /\ Len(get_cert_from_extra_data(EntryPrecert.extra_data))
          = FromBytes(Slice(EntryPrecert.extra_data, 0, 3)) + 1

\* The entry types that are neither X.509 (0) nor precertificate (1); the
\* field has two bytes.
OtherTypes == 2..65535

\* How an entry ends once x509parser.parse_data has been called on it.
ParserOutcomes == {"parse_none", "irrelevant", "persisted"}

\* C20 as claimed: an entry whose type is neither 0 nor 1 is skipped without
\* being handed to the certificate parser, nothing is stored for it, and
\* current_index moves up by one.
C20_Claim ==
    [][\A p \in Sources :
          EntryStep(p, OtherTypes) =>
              /\ EntryDone(p)
              /\ outcome'[p] \notin ParserOutcomes
              /\ current_index'[p] = current_index[p] + 1
              /\ cert'[p] = NoCert
              /\ store' = store
              /\ disk' = disk]_vars

\* The number of bytes read_leaf_header takes for the header.
HeaderLen == 12

\* C21 as claimed: an entry whose decoded leaf_input is shorter than the
\* header is skipped: current_index moves up by one, the store is unchanged
\* and the run goes on with the next entry.
C21_Claim ==
    [][\A p \in Sources :
          (/\ pc[p] = "entries"
           /\ Len(CurrentEntry(p).leaf_input) < HeaderLen
           /\ pc'[p] # pc[p] \/ certs'[p] # certs[p]) =>
              /\ EntryDone(p)
              /\ pc'[p] \in {"entries", "loop"}
              /\ current_index'[p] = current_index[p] + 1
              /\ store' = store]_vars

(***************************************************************************)
(* Properties of the relevancy filter.                                      *)
(***************************************************************************)
\* name is the zone, or a name under it: the zone preceded by a dot.
UnderZone(name, zone) ==
    \/ name = zone
    \/ /\ Len(name) > Len(zone)
       /\ name[Len(name) - Len(zone)] = "."
       /\ \A k \in 1..Len(zone) : name[Len(name) - Len(zone) + k] = zone[k]

\* The position in the scan, common names then DNS names and the zone list
\* for each, at which a zone is first matched.
FirstMatch(c, zs, zone) ==
    LET names == c.subject_common_names \o c.subject_dns_names
        at    == {(i - 1) * Len(zs) + k : i \in 1..Len(names), k \in 1..Len(zs)}
        hits  == {n \in at :
                     LET i == ((n - 1) \div Len(zs)) + 1
                         k == ((n - 1) % Len(zs)) + 1
                     IN  zs[k] = zone /\ UnderZone(names[i], zone)}
    IN  CHOOSE n \in hits : \A m \in hits : n <= m

\* C22: check_zone_relevancy returns exactly the tracked zones that some
\* common name or DNS name equals or ends with preceded by a dot (never on a
\* bare suffix), each zone once, in the order of their first match in the
\* scan of the common names and then the DNS names; a second call on the
\* same certificate and zones gives the same list.
C22_MatchedZones ==
    /\ [](store[1].calls > 0 =>
            LET c  == store[1]
                zs == c.tracked
                r  == c.zones
                names == c.subject_common_names \o c.subject_dns_names
            IN  /\ \A k \in 1..Len(zs) :
                      InSeq(zs[k], r) <=>
                          \E i \in 1..Len(names) : UnderZone(names[i], zs[k])
                /\ \A i \in 1..Len(r) : InSeq(r[i], zs)
                /\ \A i, j \in 1..Len(r) : r[i] = r[j] => i = j
                /\ \A i, j \in 1..Len(r) :
                      i < j => FirstMatch(c, zs, r[i]) < FirstMatch(c, zs, r[j]))
    /\ [][store[1].calls > 0 => store'[1].zones = store[1].zones]_vars

\* C22 witness: after two calls, a certificate whose names match two nested
\* zones and include a name that only has a zone as a bare suffix.
C22_Witness ==
    /\ store[1].calls = MaxCalls
    /\ store[1].tracked = <<ZoneEC, ZoneC, ZoneDO>>
    /\ store[1].subject_common_names
          = << <<"n", "e", ".", "c">>, <<"w", ".", "d", ".", "o">> >>
    /\ store[1].subject_dns_names = << <<"a", ".", "e", ".", "c">> >>
    /\ store[1].zones = <<ZoneC, ZoneDO, ZoneEC>>

\* The for loop hands the entry it is at to x509parser.parse_data (line 480).
ReachesParser(p) ==
    LET entry == CurrentEntry(p)
        leaf  == get_cert_from_leaf(entry.leaf_input)
    IN  /\ ~LeafHeaderRaises(entry.leaf_input)
        /\ leaf[1] = None =>
              /\ leaf[2] # 0
              /\ leaf[2] = 1 =>
                    include_precerts[p] /\ ~Base64Raises(entry.extra_data)

\* What the parser returns for that entry.
ParsedEntry(p) ==
    LET entry == CurrentEntry(p)
        leaf  == get_cert_from_leaf(entry.leaf_input)
    IN  parse_data(IF leaf[1] = None /\ leaf[2] = 1
                   THEN get_cert_from_extra_data(entry.extra_data)
                   ELSE leaf[1], p, clock)

\* A tracked organization among the subject organization names, or a name
\* under a tracked zone.
Relevant(c) ==
    \/ \E i \in 1..Len(c.subject_organization_name) :
          c.subject_organization_name[i] \in ssl_orgs
    \/ \E k \in 1..Len(zones) :
          \E n \in 1..Len(c.subject_common_names \o c.subject_dns_names) :
              UnderZone((c.subject_common_names \o c.subject_dns_names)[n],
                        zones[k])

\* C23: a parsed certificate goes to the store if and only if one of its
\* subject organization names is tracked or its matched zone list is not
\* empty; otherwise the store is unchanged for the entry and the run goes
\* on with the next entry.
C23_PersistedIffRelevant ==
    [][\A p \in Sources :
          /\ (/\ pc[p] = "entries"
              /\ pc'[p] # pc[p] \/ certs'[p] # certs[p]
              /\ ReachesParser(p)
              /\ ParsedEntry(p) # NoCert) =>
                IF Relevant(ParsedEntry(p))
                THEN /\ pc'[p] \in {"insert", "update"}
                     /\ cert'[p].fingerprint_sha256
                           = ParsedEntry(p).fingerprint_sha256
                     /\ cert'[p].zones # <<>>
                           \/ check_org_relevancy(ParsedEntry(p), ssl_orgs)
                ELSE SkippedAs(p, "irrelevant")
          /\ (pc[p] \in {"insert", "update"} /\ pc'[p] # pc[p]) =>
                /\ store' # store
                /\ EntryDone(p)
                /\ outcome'[p] = "persisted"
          /\ (pc[p] = "entries" /\ store' # store) =>
                \E q \in Sources : pc[q] = "loop" /\ pc'[q] = "complete"]_vars

\* C23 witness: an irrelevant certificate has just been passed over while
\* the store holds a certificate kept for its organization alone and one
\* kept for its zones alone.
C23_Witness ==
    \E p \in Sources :
        /\ pc[p] = "entries"
        /\ outcome[p] = "irrelevant"
        /\ \E i \in 1..Len(store) :
              store[i].zones = <<>> /\ check_org_relevancy(store[i], ssl_orgs)
        /\ \E j \in 1..Len(store) :
              store[j].zones # <<>> /\ ~check_org_relevancy(store[j], ssl_orgs)

(***************************************************************************)
(* Frame of the upsert.                                                     *)
(***************************************************************************)
\* A record without the fields the update of source p sets.
OutsideUpdate(rec, p) ==
    [rec EXCEPT !.ids[p] = Absent, !.ct_log_type = None, !.zones = <<>>,
                !.marinus_updated = 0, !.sources = {}]

\* C24: the upsert of a stored fingerprint sets {source}_id, ct_log_type,
\* zones (the current match list in place of the stored one) and
\* marinus_updated of that record and adds the source to its sources; every
\* other field, the ids of the other sources included, and every other
\* record stay as they were.
C24_UpdateFrame ==
    [][\A p \in Sources :
          (pc[p] = "update" /\ pc'[p] # pc[p]) =>
              /\ Len(store') = Len(store)
              /\ \A i \in 1..Len(store) :
                    IF store[i].fingerprint_sha256 = cert[p].fingerprint_sha256
                    THEN /\ store'[i].ids[p] = current_index[p]
                         /\ store'[i].ct_log_type = cert[p].ct_log_type
                         /\ store'[i].zones
                               = check_zone_relevancy(cert[p], zones)
                         /\ store'[i].marinus_updated = clock
                         /\ store'[i].sources = store[i].sources \cup {p}
                         /\ OutsideUpdate(store'[i], p)
                               = OutsideUpdate(store[i], p)
                    ELSE store'[i] = store[i]]_vars

\* C24 witness: source a has updated a record that source b had stored at
\* index 3 with other zones and that was marked expired.
C24_Witness ==
    /\ outcome["a"] = "persisted"
    /\ \E i \in 1..Len(store) :
          /\ store[i].sources = Sources
          /\ store[i].ids["b"] = 3
          /\ store[i].ids["a"] = current_index["a"] - 1
          /\ store[i].zones = <<ZoneDO, ZoneEC>>
          /\ store[i].isExpired
          /\ store[i].marinus_updated = clock
    /\ \E j \in 1..Len(store) :
          store[j].sources = {"a"} /\ store[j].zones = <<>>

\* C25: the upsert of a fingerprint that is not stored adds one record,
\* whose {source}_id is the log index of the entry, whose zones is the
\* matched zone list, whose sources is the source alone and whose
\* ct_log_type is CERTIFICATE for an X.509 entry and PRE-CERTIFICATE for a
\* precertificate entry.
C25_InsertedRecord ==
    [][\A p \in Sources :
          (pc[p] = "insert" /\ pc'[p] # pc[p]) =>
              /\ \A i \in 1..Len(store) :
                    store[i].fingerprint_sha256
                        # ParsedEntry(p).fingerprint_sha256
              /\ Len(store') = Len(store) + 1
              /\ \A i \in 1..Len(store) : store'[i] = store[i]
              /\ LET new == store'[Len(store')]
                 IN  /\ new.fingerprint_sha256
                           = ParsedEntry(p).fingerprint_sha256
                     /\ new.ids[p] = EntryIndex(p)
                     /\ new.ids[p] = current_index[p]
                     /\ \A q \in Sources \ {p} : new.ids[q] = Absent
                     /\ new.zones
                           = check_zone_relevancy(ParsedEntry(p), zones)
                     /\ new.sources = {p}
                     /\ EntryType(p) = 0 => new.ct_log_type = "CERTIFICATE"
                     /\ EntryType(p) = 1 =>
                           new.ct_log_type = "PRE-CERTIFICATE"]_vars

\* C25 witness: source a has inserted the X.509 certificate at index 0 and
\* then the precertificate at index 1 of its log.
C25_Witness ==
    /\ pc["a"] = "entries"
    /\ outcome["a"] = "persisted"
    /\ current_index["a"] = 2
    /\ Len(store) = 2
    /\ store[1].ids = [s \in Sources |-> IF s = "a" THEN 0 ELSE Absent]
    /\ store[1].ct_log_type = "CERTIFICATE"
    /\ store[1].sources = {"a"}
    /\ store[2].ids = [s \in Sources |-> IF s = "a" THEN 1 ELSE Absent]
    /\ store[2].ct_log_type = "PRE-CERTIFICATE"
    /\ store[2].zones = <<ZoneDO, ZoneEC>>
    /\ store[2].sources = {"a"}

(***************************************************************************)
(* The resume cursor over time.                                             *)
(***************************************************************************)
\* C26 as claimed: the highest {source}_id in the store never decreases,
\* whatever the upserts and the runs, those started from a lower explicit
\* index included; and within a run the values written to {source}_id are
\* strictly increasing.
C26_Claim ==
    [][\A p \in Sources :
          /\ HighWaterMark(store', p) >= HighWaterMark(store, p)
          /\ (pc[p] \in {"insert", "update"} /\ pc'[p] # pc[p]) =>
                /\ \E i \in 1..Len(store') :
                      /\ store'[i].fingerprint_sha256
                            = cert[p].fingerprint_sha256
                      /\ store'[i].ids[p] = current_index[p]
                /\ current_index'[p] = current_index[p] + 1
          /\ (pc[p] \notin (Terminal \cup {"resolve"}) /\ Running(p)') =>
                current_index'[p] >= current_index[p]]_vars

(***************************************************************************)
(* HTTP error statuses.                                                     *)
(***************************************************************************)
\* A GET that ends with an HTTP error status: raise_for_status raises, or
\* the final status code is not 200.
HttpErrors == {"HTTPError", "Status204"}

\* C27: a request that ends with an HTTP error status gives None: no job
\* error is recorded and the process goes on, to the second request of the
\* window after a first one; apart from a first timeout, no other failure
\* of a GET leaves the process running, and None comes from nothing else.
C27_HttpErrorGivesNone ==
    \A p \in Sources :
        last[p].gets # <<>> =>
            LET gets == last[p].gets
                final == gets[Len(gets)]
            IN  /\ gets[1] \in HttpErrors =>
                      /\ last[p].result = "None"
                      /\ Len(gets) = 1
                /\ last[p].result = "None" <=> final \in HttpErrors
                /\ last[p].result = "text" <=> final = "OK"
                /\ \A k \in 1..(Len(gets) - 1) : TimedOut(gets[k])
                /\ (last[p].at = "fetch" /\ last[p].result = "None") =>
                      pc[p] = "retry" /\ job[p] = "RUNNING"

\* C27 witness: raise_for_status has raised on the first request of a
\* window and the process is waiting to ask again.
C27_Witness ==
    \E p \in Sources :
        /\ last[p] = [at |-> "fetch", gets |-> <<"HTTPError">>,
                      result |-> "None"]
        /\ pc[p] = "retry"
        /\ job[p] = "RUNNING"
        /\ current_index[p] > 0

(***************************************************************************)
(* Length check of X.509 entries.                                           *)
(***************************************************************************)
\* The for loop is at an X.509 entry whose length check fails.
AtMismatch(p) ==
    /\ pc[p] = "entries"
    /\ ~LeafHeaderRaises(CurrentEntry(p).leaf_input)
    /\ EntryType(p) = 0
    /\ ~ConsistentLeaf(CurrentEntry(p).leaf_input)

\* C28: an X.509 entry yields a certificate if and only if the value of the
\* first three payload bytes is the length of the rest of the payload minus
\* 2; on a mismatch the entry is skipped, nothing is stored, current_index
\* moves up by one, and the run goes on until current_index has reached
\* tree_size.
C28_LengthCheck ==
    /\ [](\A p \in Sources :
            (/\ pc[p] = "entries"
             /\ ~LeafHeaderRaises(CurrentEntry(p).leaf_input)
             /\ EntryType(p) = 0) =>
                LET payload == SliceFrom(CurrentEntry(p).leaf_input, HeaderLen)
                    L == payload[1] * 65536 + payload[2] * 256 + payload[3]
                IN  get_cert_from_leaf(CurrentEntry(p).leaf_input)[1] # None
                        <=> /\ Len(payload) >= 3
                            /\ L = Len(payload) - 3 - 2)
    /\ [][\A p \in Sources :
             (AtMismatch(p) /\ (pc'[p] # pc[p] \/ certs'[p] # certs[p])) =>
                 SkippedAs(p, "length_mismatch")]_vars
    /\ \A p \in Sources :
          AtMismatch(p) ~>
              (pc[p] = "complete" /\ current_index[p] >= tree_size[p])

\* C28 witness: a run has passed the entry with the inconsistent length at
\* index 2 of log a, stored the certificate that follows it and ended its
\* loop at tree_size.
C28_Witness ==
    /\ pc["a"] = "complete"
    /\ current_index["a"] = tree_size["a"]
    /\ 2 \in skipped["a"]
    /\ LogEntry("a", 2) = EntryMismatch
    /\ \E i \in 1..Len(store) : store[i].ids["a"] = 3

(***************************************************************************)
(* Indices under short responses.                                           *)
(***************************************************************************)
\* The fingerprints of the certificates the entry at index k of a log
\* carries, in its leaf or in its extra_data.
EntryFingerprints(s, k) ==
    LET entry == LogEntry(s, k)
        leaf  == get_cert_from_leaf(entry.leaf_input)
        ders  == IF LeafHeaderRaises(entry.leaf_input) THEN {}
                 ELSE {leaf[1]} \cup
                      (IF leaf[2] = 1 /\ ~Base64Raises(entry.extra_data)
                       THEN {get_cert_from_extra_data(entry.extra_data)}
                       ELSE {})
    IN  {parse_data(der, s, 0).fingerprint_sha256 :
            der \in {d \in ders : parse_data(d, s, 0) # NoCert}}

\* C29: entries are handled in strictly increasing index order, one index
\* at a time from the starting index on, and, the responses being prefixes
\* of the requested windows, the {source}_id written for a certificate is
\* the log index of its entry, however short the responses are.
C29_IdIsLogIndex ==
    /\ [](\A p \in Sources :
            /\ pc[p] \notin (Terminal \cup {"resolve"}) =>
                  current_index[p] = starting_index[p] + consumed[p]
            /\ pc[p] \in {"entries", "insert", "update"} =>
                  EntryIndex(p) = current_index[p]
            /\ pc[p] \in {"insert", "update"} =>
                  /\ cert[p].ids[p] = EntryIndex(p)
                  /\ cert[p].fingerprint_sha256
                        \in EntryFingerprints(p, EntryIndex(p))
            /\ \A i \in 1..Len(store) :
                  store[i].ids[p] # Absent =>
                      store[i].fingerprint_sha256
                          \in EntryFingerprints(p, store[i].ids[p]))
    /\ [][\A p \in Sources :
             /\ (pc[p] \in {"fetch", "retry"} /\ pc'[p] = "entries") =>
                   /\ certs'[p].start = current_index[p]
                   /\ certs'[p].pos = 0
             /\ (pc[p] \in {"entries", "insert", "update"}
                 /\ pc'[p] = "entries" /\ certs'[p] # certs[p]) =>
                   /\ certs'[p].start = certs[p].start
                   /\ certs'[p].pos = certs[p].pos + 1
                   /\ current_index'[p] = current_index[p] + 1]_vars

\* C29 witness: the first response held one entry of a longer window; the
\* certificate at index 1 came with the second response and is stored under
\* index 1.
C29_Witness ==
    \E p \in Sources :
        /\ Len(responses[p]) >= 2
        /\ responses[p][1] = 1
        /\ requests[p][1][1] = 0
        /\ requests[p][1][2] >= 1
        /\ certs[p].start = 1
        /\ outcome[p] = "persisted"
        /\ current_index[p] = 2
        /\ \E i \in 1..Len(store) : store[i].ids[p] = 1

(***************************************************************************)
(* Export to disk.                                                          *)
(***************************************************************************)
\* Process p completes the upsert of the entry it is at.
UpsertStep(p) ==
    /\ pc[p] \in {"insert", "update"}
    /\ pc'[p] \in {"entries", "loop"}

\* C30: a file is written only for an entry that is persisted, only in
\* dbAndSave mode, and in the step that has written the store; when the
\* certificate cannot be re-encoded no file is written, the store write
\* stays, and the loop moves on to the next entry with current_index one
\* higher.
C30_ExportAfterStore ==
    [][/\ disk' # disk =>
             \E p \in Sources :
                 /\ UpsertStep(p)
                 /\ download_method[p] = "dbAndSave"
                 /\ disk' = disk \cup {<<p, current_index[p]>>}
                 /\ \E i \in 1..Len(store') :
                       /\ store'[i].fingerprint_sha256
                             = cert[p].fingerprint_sha256
                       /\ store'[i].ids[p] = current_index[p]
       /\ \A p \in Sources :
             UpsertStep(p) =>
                 /\ \E i \in 1..Len(store') :
                       /\ store'[i].fingerprint_sha256
                             = cert[p].fingerprint_sha256
                       /\ store'[i].ids[p] = current_index[p]
                 /\ EntryDone(p)
                 /\ current_index'[p] = current_index[p] + 1
                 /\ IF download_method[p] = "dbAndSave" /\ cert[p].raw # "BAD"
                    THEN <<p, current_index[p]>> \in disk'
                    ELSE disk' = disk]_vars

\* C30 witness: in dbAndSave mode the certificate at index 0 of log a has
\* been stored and exported; the one at index 1, which cannot be re-encoded,
\* has been stored without a file and the loop has moved on.
C30_Witness ==
    /\ download_method["a"] = "dbAndSave"
    /\ outcome["a"] = "persisted"
    /\ current_index["a"] = 2
    /\ starting_index["a"] = 0
    /\ <<"a", 0>> \in disk
    /\ <<"a", 1>> \notin disk
    /\ \E i \in 1..Len(store) :
          store[i].ids["a"] = 1 /\ store[i].raw = "BAD"

(***************************************************************************)
(* Reconnect-retry of the store wrappers.                                   *)
(***************************************************************************)
\* The number of AutoReconnect among the outcomes of the attempts.
Reconnects(gets) == Cardinality({k \in 1..Len(gets) : gets[k] = "AutoReconnect"})

\* The call of process p has ended: returned, exit(1), or an exception that
\* the wrapper does not catch.
PerformEnded(p) == pc[p] \in {"returned", "fatal", "crashed"}

\* C31: every perform_* wrapper of both connectors repeats the store
\* operation only after AutoReconnect, at most 5 times after the first
\* failure with 5 s of sleep before each, returns the result of the first
\* attempt that succeeds, ends the process with exit(1) when AutoReconnect
\* is raised once more after the fifth retry, and always comes to an end.
C31_BoundedReconnectRetry ==
    /\ [](\A p \in Sources :
            pc[p] \in {"perform", "returned", "fatal", "crashed"} =>
                LET call == last[p]
                    n    == Len(call.gets)
                IN  /\ call.at[1] \in Connectors /\ call.at[2] \in Operations
                    /\ n <= 6
                    /\ call.num_tries <= 5
                    /\ call.slept = 5 * call.num_tries
                    /\ \A k \in 1..(n - 1) : call.gets[k] = "AutoReconnect"
                    /\ pc[p] = "perform" =>
                          /\ call.num_tries = n
                          /\ Reconnects(call.gets) = n
                    /\ pc[p] = "returned" <=> (n > 0 /\ call.gets[n] = "OK")
                    /\ pc[p] = "returned" => call.num_tries = n - 1
                    /\ pc[p] = "fatal" <=> Reconnects(call.gets) = 6
                    /\ pc[p] = "crashed" <=>
                          (n > 0 /\ call.gets[n] \notin {"OK", "AutoReconnect"}))
    /\ [][\A p \in Sources :
             /\ (pc[p] = "perform" /\ pc'[p] = "returned") =>
                   /\ last'[p].result = <<OperationResult(last[p].at[2], store)>>
                   /\ store' = OperationEffect(last[p].at[2], store)
             /\ (pc[p] = "perform" /\ pc'[p] # "returned") => store' = store
             /\ (pc[p] = "perform" /\ pc'[p] = "perform"
                 /\ last'[p].gets # last[p].gets) =>
                   /\ last'[p].gets = Append(last[p].gets, "AutoReconnect")
                   /\ last'[p].num_tries = last[p].num_tries + 1
                   /\ last'[p].slept = last[p].slept + 5]_vars
    /\ \A p \in Sources : (pc[p] = "perform") ~> PerformEnded(p)

\* C31 witness: perform_insert of RemoteMongoConnector has returned the
\* result of its sixth attempt, after five AutoReconnect and 25 s of sleep,
\* and the document is in the collection once.
C31_Witness ==
    /\ pc["a"] = "returned"
    /\ last["a"].at = <<"RemoteMongoConnector", "insert">>
    /\ last["a"].gets = <<"AutoReconnect", "AutoReconnect", "AutoReconnect",
                          "AutoReconnect", "AutoReconnect", "OK">>
    /\ last["a"].num_tries = 5
    /\ last["a"].slept = 25
    /\ last["a"].result = <<"InsertOneResult">>
    /\ store = <<QueryDoc>>

====
